---- MODULE Spec2Model ----
(***************************************************************************)
(* State-machine model of deeplink_runner_qt.py: the module globals        *)
(* (ADB_PATH, DATA_FILE), the DeeplinkLauncher window (devices, data, the  *)
(* two list widgets, the device combo box, the deep-link line edit) and    *)
(* one action per event handler.  Everything outside the process (the adb  *)
(* tool, the file system, what the user types or answers in a dialog) is   *)
(* an input drawn from a small set.                                        *)
(*                                                                         *)
(* Python str values that the code takes apart (strip) are sequences of    *)
(* one-character strings; str values it only compares or concatenates as   *)
(* a whole (favorite names) are TLA+ strings.                              *)
(***************************************************************************)
EXTENDS Integers, Sequences, FiniteSets, TLC

VARIABLES
    pc,              \* "start" | "running" | "crashed" (uncaught exception)
    ADB_PATH,        \* module global, line 81: NoneVal or a path
    file,            \* content of DATA_FILE on disk
    devices,         \* self.devices
    device_combo,    \* self.device_combo
    deeplink_input,  \* self.deeplink_input.text()
    data,            \* self.data
    history_list,    \* rows of self.history_list
    favorites_list,  \* rows of self.favorites_list
    lastOp           \* what the most recent step did (observation only)

vars == <<pc, ADB_PATH, file, devices, device_combo, deeplink_input, data,
          history_list, favorites_list, lastOp>>

----------------------------------------------------------------------------
(* Bounds of the model *)

\* add_to_favorites and import_deeplinks are only explored while they leave
\* at most this many favorites
MaxFav == 2

----------------------------------------------------------------------------
(* Values *)

NoneVal == "None"
AdbResolved == "/usr/bin/adb"

\* format_favorite's separator, two spaces, an arrow, two spaces
ARROW == "  ->  "

\* a dict key that is absent (reading it raises KeyError)
MissingKey == "<missing>"

A == <<"a">>
B == <<"b">>

\* what the user can leave in the line edit
Texts == {<<>>, A, <<" ", "b">>}

\* what the user can type in QInputDialog.getText ("Main" reaches the
\* store through imported documents)
Names == {"", "Home"}

RangeOf(s) == {s[i] : i \in 1..Len(s)}

NoDup(s) == \A i, j \in 1..Len(s) : i # j => s[i] # s[j]

\* Python: x in list
In(x, s) == \E i \in 1..Len(s) : s[i] = x

\* Python: str.strip() for the blank character
RECURSIVE lstrip(_)
lstrip(t) == IF t # <<>> /\ Head(t) = " " THEN lstrip(Tail(t)) ELSE t

RECURSIVE rstrip(_)
rstrip(t) ==
    IF t # <<>> /\ t[Len(t)] = " " THEN rstrip(SubSeq(t, 1, Len(t) - 1)) ELSE t

strip(t) == rstrip(lstrip(t))

EmptyStore == [history |-> <<>>, favorites |-> <<>>]

Fav(n, d) == [name |-> n, deeplink |-> d]

\* list.insert(0, x)
Insert0(s, x) == <<x>> \o s

\* del list[row], QListWidget.takeItem(row); rows are 0-based
DelAt(s, row) == SubSeq(s, 1, row) \o SubSeq(s, row + 2, Len(s))

----------------------------------------------------------------------------
(* DATA_FILE *)

AbsentFile  == [kind |-> "absent",  store |-> EmptyStore]
CorruptFile == [kind |-> "corrupt", store |-> EmptyStore]
\* valid JSON that is not a {"history": .., "favorites": ..} mapping
OtherFile   == [kind |-> "other",   store |-> EmptyStore]
StoreFile(s) == [kind |-> "store", store |-> s]

\* load_data: a missing or unparsable file gives the empty store; anything
\* json.load accepts is returned as it is
load_data(f) ==
    IF f.kind = "absent" THEN [ok |-> TRUE, data |-> EmptyStore]
    ELSE IF f.kind = "corrupt" THEN [ok |-> TRUE, data |-> EmptyStore]
    ELSE IF f.kind = "other" THEN [ok |-> FALSE, data |-> EmptyStore]
    ELSE [ok |-> TRUE, data |-> f.store]

\* outcomes of the open/json.dump of save_data
WriteOutcomes == {"ok", "open_fails", "write_fails"}

\* save_data as it would be if the write were skipped
save_dataSkipsWrite(f, d, w) == f

\* save_data: the file after the call; w is what the file system does.
\* open(.., "w") failing leaves the file alone, a failure after it leaves a
\* truncated or partial document; the exception is caught in both cases.
save_data(f, d, w) ==
    IF w = "ok" THEN StoreFile(d)
    ELSE IF w = "open_fails" THEN f
    ELSE CorruptFile

SaveResult(w) == IF w = "ok" THEN "ok" ELSE "failed"

\* The failures explored for a save: those that leave a truncated document.
\* A failing open leaves whatever earlier store the file held, one more copy
\* of the store in the state; save_data covers it, the exploration does not.
Writes == WriteOutcomes \ {"open_fails"}

----------------------------------------------------------------------------
(* Device enumerator *)

\* A line of adb's output is the sequence of its blank-separated tokens
\* (line.split()); a token is a sequence of text fragments.
Tok(x) == <<x>>
HeaderLine == <<Tok("List"), Tok("of"), Tok("devices"), Tok("attached")>>
Line1 == <<Tok("emu1"), Tok("device"), <<"model:", "Pixel", "_", "5">>>>
Line2 == <<Tok("usb2"), Tok("unauthorized")>>

\* what `adb devices -l` can do: exit non-zero (check=True raises), fail to
\* start (OSError), or print a listing
AdbListings ==
    { [kind |-> "nonzero", lines |-> <<>>],
      [kind |-> "oserror", lines |-> <<>>],
      [kind |-> "ok", lines |-> <<HeaderLine>>],
      [kind |-> "ok", lines |-> <<HeaderLine, Line2>>],
      [kind |-> "ok", lines |-> <<HeaderLine, Line2, Line1>>] }

\* the listings and versions drawn while the store is explored
StoreListings == {l \in AdbListings : l.kind = "nonzero" \/ Len(l.lines) = 3}
StoreVersions == {"13"}

\* what `adb -s <serial> shell getprop ...` can give: a version, nothing,
\* or a timeout (an exception)
VersionOutcomes == {"13", "", "timeout"}

\* Python: "device" in line, on the fragments of this vocabulary
HasDeviceWord(line) ==
    \E i \in 1..Len(line) : \E j \in 1..Len(line[i]) :
        line[i][j] \in {"device", "devices"}

\* Python: part.startswith("model:")
StartsWithModel(part) == part # <<>> /\ part[1] = "model:"

\* Python: part.replace("model:", "").replace("_", " ")
RECURSIVE ModelName(_)
ModelName(part) ==
    IF part = <<>> THEN <<>>
    ELSE IF Head(part) = "model:" THEN ModelName(Tail(part))
    ELSE IF Head(part) = "_" THEN <<" ">> \o ModelName(Tail(part))
    ELSE <<Head(part)>> \o ModelName(Tail(part))

\* lines 109-111: the last token that starts with "model:" wins
RECURSIVE ModelOf(_, _)
ModelOf(parts, sofar) ==
    IF parts = <<>> THEN sofar
    ELSE ModelOf(Tail(parts),
                 IF StartsWithModel(Head(parts)) THEN ModelName(Head(parts))
                 ELSE sofar)

\* lines 103-134 for one line that contains "device"
DeviceInfo(line, v) ==
    [serial  |-> line[1],
     model   |-> ModelOf(line, <<"Unknown">>),
     android |-> IF v \in {"", "timeout"} THEN "?" ELSE v]

RECURSIVE ParseLines(_, _)
ParseLines(lines, v) ==
    IF lines = <<>> THEN <<>>
    ELSE IF ~HasDeviceWord(Head(lines)) THEN ParseLines(Tail(lines), v)
    ELSE <<DeviceInfo(Head(lines), v)>> \o ParseLines(Tail(lines), v)

NoneDevices == [kind |-> "None", items |-> <<>>]
ListDevices(s) == [kind |-> "list", items |-> s]

\* get_devices_info, lines 86-139.  The bare `return` of line 90 returns
\* None; every exception of the listing is swallowed and the (empty) list
\* built so far is returned.
get_devices_info(adb, out, v) ==
    IF adb = NoneVal THEN NoneDevices
    ELSE IF out.kind # "ok" THEN ListDevices(<<>>)
    ELSE IF out.lines = <<>> THEN ListDevices(<<>>)
    ELSE ListDevices(ParseLines(Tail(out.lines), v))

\* Python truthiness of self.devices: None and [] are both falsy
Falsy(devs) == devs.kind = "None" \/ devs.items = <<>>

format_device(d) ==
    <<d.serial, " | ", d.model, " | Android ", d.android>>

ComboItem(d) == [text |-> format_device(d), data |-> d.serial]

RECURSIVE ComboItems(_)
ComboItems(ds) ==
    IF ds = <<>> THEN <<>> ELSE <<ComboItem(Head(ds))>> \o ComboItems(Tail(ds))

NoCombo == [kind |-> "None", items |-> <<>>, index |-> -1]

\* a QComboBox filled by addItem: the first item added becomes current
FilledCombo(ds) ==
    [kind |-> "combo", items |-> ComboItems(ds),
     index |-> IF ds = <<>> THEN -1 ELSE 0]

\* QComboBox.findData: index of the first item with that data, else -1
FindData(items, serial) ==
    IF \E i \in 1..Len(items) : items[i].data = serial
    THEN (CHOOSE i \in 1..Len(items) :
              /\ items[i].data = serial
              /\ \A j \in 1..(i - 1) : items[j].data # serial) - 1
    ELSE -1

\* current_device, lines 332-335; None when there is no combo or no row
current_device(combo) ==
    IF combo.kind = "combo" /\ combo.index >= 0
    THEN [some |-> TRUE, serial |-> combo.items[combo.index + 1].data]
    ELSE [some |-> FALSE, serial |-> <<>>]

\* lines 317-329 of refresh_devices, for an existing combo
RefreshedCombo(combo, ds) ==
    LET cur   == current_device(combo)
        fresh == FilledCombo(ds)
        idx   == IF cur.some THEN FindData(fresh.items, cur.serial) ELSE -1
    IN  IF idx >= 0 THEN [fresh EXCEPT !.index = idx] ELSE fresh

----------------------------------------------------------------------------
(* Link dispatcher *)

\* what the `adb shell am start` subprocess can do
DispatchOutcomes == {"ok", "nonzero", "oserror"}

\* run_deeplink, lines 142-150.  With no ADB_PATH it returns without
\* running anything and without raising; otherwise subprocess.run with
\* check=True raises on a non-zero exit and on a tool that cannot be
\* executed.
run_deeplink(adb, device, deeplink, r) ==
    IF adb = NoneVal
    THEN [raised |-> FALSE, tool |-> "not_found", cmd |-> <<>>]
    ELSE [raised |-> r # "ok",
          tool   |-> r,
          cmd    |-> <<adb>>
                     \o (IF device.some THEN <<"-s", device.serial>> ELSE <<>>)
                     \o <<"shell", "am", "start", "-a",
                          "android.intent.action.VIEW", "-d", deeplink>>]

----------------------------------------------------------------------------
(* History / favorites store and its two list widgets *)

\* format_favorite, line 455; reading a missing "name" raises
format_favorite(fav) == <<fav.name, ARROW>> \o fav.deeplink

FormatRaises(fav) == fav.name = MissingKey

RECURSIVE FormatAll(_)
FormatAll(favs) ==
    IF favs = <<>> THEN <<>>
    ELSE <<format_favorite(Head(favs))>> \o FormatAll(Tail(favs))

\* insertItem as it would be if the row went to the end of the widget
insertItemAtEnd(rows, x) == Append(rows, x)

\* QListWidget.insertItem(0, x)
insertItem0(rows, x) == <<x>> \o rows

\* QListWidget.addItem(x)
addItem(rows, x) == Append(rows, x)

\* QListWidget.takeItem(row)
takeItem(rows, row) == DelAt(rows, row)

\* line 349: the test that guards the insertion into history
IsNewLink(deeplink, history) == ~In(deeplink, history)

\* line 350 as it would be with append in place of insert(0, ..)
RecordLaunchAtEnd(history, deeplink) == Append(history, deeplink)

\* line 350: self.data["history"].insert(0, deeplink)
RecordLaunch(history, deeplink) == Insert0(history, deeplink)

\* the reply test as it would be if any answer were taken for Yes
ConfirmedByAnyReply(reply) == reply \in {"Yes", "No"}

\* lines 399, 412, 428: reply == QMessageBox.Yes
Confirmed(reply) == reply = "Yes"

\* QListWidget.currentRow(): -1 when no row is current, else a row of the
\* widget
Rows(widget) == -1 .. (Len(widget) - 1)

----------------------------------------------------------------------------
(* Import documents *)

\* a file picked in the open dialog: whether it can be read and parsed,
\* whether it is a mapping, and the two keys it may hold
Doc(r, m, hf, favs, hh, hist) ==
    [path |-> TRUE, readable |-> r, mapping |-> m, hasFav |-> hf,
     favorites |-> favs, hasHist |-> hh, history |-> hist]

\* the dialog was cancelled: no path, line 489
NoDoc == [Doc(FALSE, FALSE, FALSE, <<>>, FALSE, <<>>) EXCEPT !.path = FALSE]

F1 == Fav("Home", A)
F2 == Fav("Main", A)
BadFav == Fav(MissingKey, B)

ValidDocs ==
    { Doc(TRUE, TRUE, TRUE, <<F2, F1>>, TRUE, <<B, A>>),
      Doc(TRUE, TRUE, TRUE, <<F1, F1>>, TRUE, <<A, A>>),
      Doc(TRUE, TRUE, TRUE, <<F1>>, FALSE, <<>>),
      Doc(TRUE, TRUE, TRUE, <<>>, TRUE, <<B>>) }

MalformedDocs ==
    { Doc(FALSE, FALSE, FALSE, <<>>, FALSE, <<>>),        \* unreadable
      Doc(TRUE, FALSE, FALSE, <<>>, FALSE, <<>>),         \* a JSON list
      Doc(TRUE, TRUE, FALSE, <<>>, TRUE, <<A>>) }         \* no "favorites"

\* a mapping whose favorites hold an entry without "name"
IllTypedDocs == { Doc(TRUE, TRUE, TRUE, <<F1, BadFav>>, TRUE, <<A>>) }

Docs == ValidDocs \cup MalformedDocs \cup IllTypedDocs \cup {NoDoc}

\* line 501 as it would be without the test for the "favorites" key
ValidImportAnyMapping(doc) == doc.mapping

\* line 501: isinstance(imported, dict) and "favorites" in imported
ValidImport(doc) == doc.mapping /\ doc.hasFav

\* imported.get("history", [])
DocHistory(doc) == IF doc.hasHist THEN doc.history ELSE <<>>

\* the favorites loop as it would be without the test of line 508
RECURSIVE MergeFavoritesNoTest(_, _)
MergeFavoritesNoTest(items, acc) ==
    IF items = <<>> \/ acc.raised THEN acc
    ELSE LET fav == Head(items) IN
         IF FormatRaises(fav)
         THEN [acc EXCEPT !.favs = Append(acc.favs, fav), !.raised = TRUE]
         ELSE MergeFavoritesNoTest(Tail(items),
                  [favs   |-> Append(acc.favs, fav),
                   rows   |-> addItem(acc.rows, format_favorite(fav)),
                   added  |-> acc.added + 1,
                   raised |-> FALSE])

\* the favorites loop as it would be if line 508 compared deep-links only
RECURSIVE MergeFavoritesByDeeplink(_, _)
MergeFavoritesByDeeplink(items, acc) ==
    IF items = <<>> \/ acc.raised THEN acc
    ELSE LET fav == Head(items) IN
         IF \E i \in 1..Len(acc.favs) : acc.favs[i].deeplink = fav.deeplink
         THEN MergeFavoritesByDeeplink(Tail(items), acc)
         ELSE IF FormatRaises(fav)
         THEN [acc EXCEPT !.favs = Append(acc.favs, fav), !.raised = TRUE]
         ELSE MergeFavoritesByDeeplink(Tail(items),
                  [favs   |-> Append(acc.favs, fav),
                   rows   |-> addItem(acc.rows, format_favorite(fav)),
                   added  |-> acc.added + 1,
                   raised |-> FALSE])

\* lines 506-511: the favorites loop.  acc is [favs, rows, added, raised];
\* format_favorite raising ends the handler after the append of line 509.
RECURSIVE MergeFavorites(_, _)
MergeFavorites(items, acc) ==
    IF items = <<>> \/ acc.raised THEN acc
    ELSE LET fav == Head(items) IN
         IF In(fav, acc.favs) THEN MergeFavorites(Tail(items), acc)
         ELSE IF FormatRaises(fav)
         THEN [acc EXCEPT !.favs = Append(acc.favs, fav), !.raised = TRUE]
         ELSE MergeFavorites(Tail(items),
                  [favs   |-> Append(acc.favs, fav),
                   rows   |-> addItem(acc.rows, format_favorite(fav)),
                   added  |-> acc.added + 1,
                   raised |-> FALSE])

\* the history loop as it would be without the test of line 515
RECURSIVE MergeHistoryNoTest(_, _)
MergeHistoryNoTest(items, acc) ==
    IF items = <<>> THEN acc
    ELSE MergeHistoryNoTest(Tail(items),
             [hist  |-> Append(acc.hist, Head(items)),
              rows  |-> addItem(acc.rows, Head(items)),
              added |-> acc.added + 1])

\* lines 513-518: the history loop.  acc is [hist, rows, added]
RECURSIVE MergeHistory(_, _)
MergeHistory(items, acc) ==
    IF items = <<>> THEN acc
    ELSE LET link == Head(items) IN
         IF In(link, acc.hist) THEN MergeHistory(Tail(items), acc)
         ELSE MergeHistory(Tail(items),
                  [hist  |-> Append(acc.hist, link),
                   rows  |-> addItem(acc.rows, link),
                   added |-> acc.added + 1])

----------------------------------------------------------------------------
(* Observation of the last handler run *)

\* op: the handler; res: the branch it took; d: the stripped deep-link it
\* read; tool: what the dispatch did; doc: the document it was given;
\* added_fav, added_hist: the counts it showed; save: whether save_data was
\* called and how it went; msgs: the dialogs shown; reply: the answer to
\* its yes/no question
Op(op, res, d, tool, doc, af, ah, save, msgs) ==
    [op |-> op, res |-> res, d |-> d, tool |-> tool, doc |-> doc,
     added_fav |-> af, added_hist |-> ah, save |-> save, msgs |-> msgs,
     reply |-> "none"]

Asked(o, reply) == [o EXCEPT !.reply = reply]

NoOp == Op("none", "none", <<>>, "not_called", NoDoc, 0, 0, "none", <<>>)

\* the dialogs of a handler that called save_data with outcome w
SaveMsgs(w) == IF w = "ok" THEN <<>> ELSE <<"save_error">>

Done(op) == lastOp' = op

\* A branch that never reads an input takes it at one fixed value, so that
\* the same step is not explored once per value it ignores.
Unused(x, dflt) == x = dflt

Env == UNCHANGED <<ADB_PATH, devices, device_combo>>

NoStoreChange == UNCHANGED <<data, history_list, favorites_list, file>>

----------------------------------------------------------------------------
(* Start-up *)

InitStores ==
    { EmptyStore,
      [history |-> <<A>>, favorites |-> <<F1>>],
      [history |-> <<B, A>>, favorites |-> <<>>] }

InitFiles == {AbsentFile, CorruptFile, OtherFile}
                 \cup {StoreFile(st) : st \in InitStores}

\* the process before DeeplinkLauncher() is constructed: ADB_PATH and
\* DATA_FILE are what the machine has, the window has no attributes yet
Init ==
    /\ pc = "start"
    /\ ADB_PATH \in {NoneVal, AdbResolved}
    /\ file \in InitFiles
    /\ devices = ListDevices(<<>>)
    /\ device_combo = NoCombo
    /\ deeplink_input = <<>>
    /\ data = EmptyStore
    /\ history_list = <<>>
    /\ favorites_list = <<>>
    /\ lastOp = NoOp

\* DeeplinkLauncher.__init__ with init_ui and the first refresh_devices,
\* lines 177-329.  len(self.devices) of line 204 raises TypeError on None;
\* self.data["history"] of line 255 raises when the file held some other
\* JSON value.
Startup(out1, v1, out2, v2) ==
    LET devs1 == get_devices_info(ADB_PATH, out1, v1)
        ld    == load_data(file)
        combo == IF Len(devs1.items) > 0 THEN FilledCombo(devs1.items)
                 ELSE NoCombo
        devs2 == get_devices_info(ADB_PATH, out2, v2)
    IN
    /\ pc = "start"
    /\ UNCHANGED <<ADB_PATH, file, deeplink_input>>
    /\ IF devs1.kind = "None"
       THEN /\ pc' = "crashed"
            /\ devices' = devs1
            /\ data' = ld.data
            /\ UNCHANGED <<device_combo, history_list, favorites_list>>
            /\ Done(Op("startup", "TypeError", <<>>, "not_called", NoDoc, 0, 0,
                       "none", <<>>))
       ELSE IF ~ld.ok
       THEN /\ pc' = "crashed"
            /\ devices' = devs1
            /\ device_combo' = combo
            /\ data' = ld.data
            /\ UNCHANGED <<history_list, favorites_list>>
            /\ Done(Op("startup", "KeyError", <<>>, "not_called", NoDoc, 0, 0,
                       "none", <<>>))
       ELSE /\ pc' = "running"
            /\ devices' = devs2
            /\ device_combo' = IF combo.kind = "combo"
                               THEN RefreshedCombo(combo, devs2.items)
                               ELSE NoCombo
            /\ data' = ld.data
            /\ history_list' = ld.data.history
            /\ favorites_list' = FormatAll(ld.data.favorites)
            /\ Done(Op("startup", "ok", <<>>, "not_called", NoDoc, 0, 0, "none",
                       IF Falsy(devs2) THEN <<"information">> ELSE <<>>))

\* refresh_devices, lines 298-329; the button exists only with a combo
refresh_devices(out, v) ==
    LET devs == get_devices_info(ADB_PATH, out, v)
        msgs == IF Falsy(devs) THEN <<"information">> ELSE <<>>
    IN
    /\ pc = "running"
    /\ device_combo.kind = "combo"
    /\ devices' = devs
    /\ UNCHANGED <<ADB_PATH, deeplink_input>>
    /\ NoStoreChange
    /\ IF devs.kind = "None"
       THEN /\ pc' = "crashed"
            /\ device_combo' = [device_combo EXCEPT !.items = <<>>,
                                                    !.index = -1]
            /\ Done(Op("refresh_devices", "TypeError", <<>>, "not_called", NoDoc,
                       0, 0, "none", msgs))
       ELSE /\ pc' = pc
            /\ device_combo' = RefreshedCombo(device_combo, devs.items)
            /\ Done(Op("refresh_devices", "ok", <<>>, "not_called", NoDoc, 0, 0,
                       "none", msgs))

\* the user edits the deep-link line edit
edit_deeplink(t) ==
    /\ pc = "running"
    /\ t # deeplink_input
    /\ deeplink_input' = t
    /\ pc' = pc
    /\ Env
    /\ NoStoreChange
    /\ Done(Op("edit_deeplink", "ok", <<>>, "not_called", NoDoc, 0, 0, "none",
               <<>>))

----------------------------------------------------------------------------
(* Handlers of the store *)

\* launch, lines 337-352, with `text` in the line edit
LaunchCore(opname, text, r, w) ==
    LET deeplink == strip(text)
        run == run_deeplink(ADB_PATH, current_device(device_combo), deeplink, r)
    IN
    /\ deeplink_input' = text
    /\ pc' = pc
    /\ Env
    /\ IF deeplink = <<>>
       THEN /\ Unused(r, "ok") /\ Unused(w, "ok")
            /\ NoStoreChange
            /\ Done(Op(opname, "empty", deeplink, "not_called", NoDoc, 0, 0,
                       "none", <<"warning">>))
       ELSE IF run.raised
       THEN /\ Unused(w, "ok")
            /\ NoStoreChange
            /\ Done(Op(opname, "adb_error", deeplink, run.tool, NoDoc, 0, 0,
                       "none", <<"critical">>))
       ELSE IF IsNewLink(deeplink, data.history)
       THEN /\ data' = [data EXCEPT !.history = RecordLaunch(@, deeplink)]
            /\ history_list' = insertItem0(history_list, deeplink)
            /\ favorites_list' = favorites_list
            /\ file' = save_data(file, data', w)
            /\ Done(Op(opname, "recorded", deeplink, run.tool, NoDoc, 0, 0,
                       SaveResult(w), SaveMsgs(w)))
       ELSE /\ Unused(w, "ok")
            /\ NoStoreChange
            /\ Done(Op(opname, "known", deeplink, run.tool, NoDoc, 0, 0,
                       "none", <<>>))

\* the launch button
launch(r, w) ==
    /\ pc = "running"
    /\ LaunchCore("launch", deeplink_input, r, w)

\* launch_from_history, lines 437-440: double click on a history row
launch_from_history(row, r, w) ==
    /\ pc = "running"
    /\ row \in 0 .. (Len(history_list) - 1)
    /\ LaunchCore("launch", history_list[row + 1], r, w)

\* fill_from_history, lines 433-435: click on a history row
fill_from_history(row) ==
    /\ pc = "running"
    /\ row \in 0 .. (Len(history_list) - 1)
    /\ deeplink_input' = history_list[row + 1]
    /\ pc' = pc
    /\ Env
    /\ NoStoreChange
    /\ Done(Op("fill_from_history", "ok", history_list[row + 1], "not_called",
               NoDoc, 0, 0, "none", <<>>))

\* a handler that indexes self.data["favorites"] past its end
IndexErrorCrash(opname) ==
    /\ pc' = "crashed"
    /\ UNCHANGED deeplink_input
    /\ Env
    /\ NoStoreChange
    /\ Done(Op(opname, "IndexError", <<>>, "not_called", NoDoc, 0, 0, "none",
               <<>>))

\* launch_from_favorite, lines 442-446: double click on a favorites row
launch_from_favorite(row, r, w) ==
    /\ pc = "running"
    /\ row \in 0 .. (Len(favorites_list) - 1)
    /\ IF row >= Len(data.favorites)
       THEN IndexErrorCrash("launch_from_favorite")
       ELSE LaunchCore("launch",
                       data.favorites[row + 1].deeplink, r, w)

\* fill_from_favorite, lines 448-451: click on a favorites row
fill_from_favorite(row) ==
    /\ pc = "running"
    /\ row \in 0 .. (Len(favorites_list) - 1)
    /\ IF row >= Len(data.favorites)
       THEN IndexErrorCrash("fill_from_favorite")
       ELSE /\ deeplink_input' = data.favorites[row + 1].deeplink
            /\ pc' = pc
            /\ Env
            /\ NoStoreChange
            /\ Done(Op("fill_from_favorite", "ok",
                       data.favorites[row + 1].deeplink, "not_called", NoDoc,
                       0, 0, "none", <<>>))

\* add_to_favorites, lines 354-366
add_to_favorites(name, ok, w) ==
    LET deeplink == strip(deeplink_input)
        fav == Fav(name, deeplink)
    IN
    /\ pc = "running"
    /\ Len(data.favorites) < MaxFav
    /\ UNCHANGED <<pc, deeplink_input>>
    /\ Env
    /\ IF deeplink = <<>>
       THEN /\ Unused(name, "") /\ Unused(ok, FALSE) /\ Unused(w, "ok")
            /\ NoStoreChange
            /\ Done(Op("add_to_favorites", "empty", deeplink, "not_called",
                       NoDoc, 0, 0, "none", <<>>))
       ELSE IF ~ok \/ name = ""
       THEN /\ Unused(w, "ok")
            /\ NoStoreChange
            /\ Done(Op("add_to_favorites", "cancel", deeplink, "not_called",
                       NoDoc, 0, 0, "none", <<>>))
       ELSE /\ data' = [data EXCEPT !.favorites = Append(@, fav)]
            /\ favorites_list' = addItem(favorites_list, format_favorite(fav))
            /\ history_list' = history_list
            /\ file' = save_data(file, data', w)
            /\ Done(Op("add_to_favorites", "added", deeplink, "not_called",
                       NoDoc, 0, 0, SaveResult(w), SaveMsgs(w)))

\* rename_favorite, lines 368-383
rename_favorite(row, new_name, ok, w) ==
    /\ pc = "running"
    /\ row \in Rows(favorites_list)
    /\ IF row < 0
       THEN /\ Unused(new_name, "") /\ Unused(ok, FALSE) /\ Unused(w, "ok")
            /\ UNCHANGED <<pc, deeplink_input>>
            /\ Env
            /\ NoStoreChange
            /\ Done(Op("rename_favorite", "no_row", <<>>, "not_called", NoDoc,
                       0, 0, "none", <<>>))
       ELSE IF row >= Len(data.favorites)
       THEN IndexErrorCrash("rename_favorite")
       ELSE IF ~ok \/ new_name = ""
       THEN /\ Unused(w, "ok")
            /\ UNCHANGED <<pc, deeplink_input>>
            /\ Env
            /\ NoStoreChange
            /\ Done(Op("rename_favorite", "cancel", <<>>, "not_called", NoDoc,
                       0, 0, "none", <<>>))
       ELSE /\ UNCHANGED <<pc, deeplink_input>>
            /\ Env
            /\ data' = [data EXCEPT !.favorites[row + 1].name = new_name]
            /\ favorites_list' =
                   [favorites_list EXCEPT ![row + 1] =
                        format_favorite(data'.favorites[row + 1])]
            /\ history_list' = history_list
            /\ file' = save_data(file, data', w)
            /\ Done(Op("rename_favorite", "renamed", <<>>, "not_called", NoDoc,
                       0, 0, SaveResult(w), SaveMsgs(w)))

\* delete_favorite, lines 385-402
delete_favorite(row, reply, w) ==
    /\ pc = "running"
    /\ row \in Rows(favorites_list)
    /\ IF row < 0
       THEN /\ Unused(reply, "No") /\ Unused(w, "ok")
            /\ UNCHANGED <<pc, deeplink_input>>
            /\ Env
            /\ NoStoreChange
            /\ Done(Op("delete_favorite", "no_row", <<>>, "not_called", NoDoc,
                       0, 0, "none", <<>>))
       ELSE IF row >= Len(data.favorites)
       THEN IndexErrorCrash("delete_favorite")
       ELSE IF Confirmed(reply)
       THEN /\ UNCHANGED <<pc, deeplink_input>>
            /\ Env
            /\ data' = [data EXCEPT !.favorites = DelAt(@, row)]
            /\ favorites_list' = takeItem(favorites_list, row)
            /\ history_list' = history_list
            /\ file' = save_data(file, data', w)
            /\ Done(Asked(Op("delete_favorite", "deleted", <<>>, "not_called", NoDoc,
                       0, 0, SaveResult(w), SaveMsgs(w)), reply))
       ELSE /\ Unused(w, "ok")
            /\ UNCHANGED <<pc, deeplink_input>>
            /\ Env
            /\ NoStoreChange
            /\ Done(Asked(Op("delete_favorite", "declined", <<>>, "not_called", NoDoc,
                       0, 0, "none", <<>>), reply))

\* clear_favorite, lines 404-415
clear_favorite(reply, w) ==
    /\ pc = "running"
    /\ UNCHANGED <<pc, deeplink_input>>
    /\ Env
    /\ IF Confirmed(reply)
       THEN /\ data' = [data EXCEPT !.favorites = <<>>]
            /\ favorites_list' = <<>>
            /\ history_list' = history_list
            /\ file' = save_data(file, data', w)
            /\ Done(Asked(Op("clear_favorite", "cleared", <<>>, "not_called", NoDoc,
                       0, 0, SaveResult(w), SaveMsgs(w)), reply))
       ELSE /\ Unused(w, "ok")
            /\ NoStoreChange
            /\ Done(Asked(Op("clear_favorite", "declined", <<>>, "not_called", NoDoc,
                       0, 0, "none", <<>>), reply))

\* clear_history, lines 417-431
clear_history(reply, w) ==
    /\ pc = "running"
    /\ UNCHANGED <<pc, deeplink_input>>
    /\ Env
    /\ IF data.history = <<>>
       THEN /\ Unused(reply, "No") /\ Unused(w, "ok")
            /\ NoStoreChange
            /\ Done(Op("clear_history", "empty", <<>>, "not_called", NoDoc,
                       0, 0, "none", <<>>))
       ELSE IF Confirmed(reply)
       THEN /\ data' = [data EXCEPT !.history = <<>>]
            /\ history_list' = <<>>
            /\ favorites_list' = favorites_list
            /\ file' = save_data(file, data', w)
            /\ Done(Asked(Op("clear_history", "cleared", <<>>, "not_called", NoDoc,
                       0, 0, SaveResult(w), SaveMsgs(w)), reply))
       ELSE /\ Unused(w, "ok")
            /\ NoStoreChange
            /\ Done(Asked(Op("clear_history", "declined", <<>>, "not_called", NoDoc,
                       0, 0, "none", <<>>), reply))

\* export_deeplinks, lines 461-482: writes another file, changes nothing
export_deeplinks(chosen, wrote) ==
    /\ pc = "running"
    /\ UNCHANGED <<pc, deeplink_input>>
    /\ Env
    /\ (~chosen => Unused(wrote, FALSE))
    /\ NoStoreChange
    /\ Done(Op("export_deeplinks",
               IF ~chosen THEN "cancel" ELSE IF wrote THEN "ok" ELSE "error",
               <<>>, "not_called", NoDoc, 0, 0, "none",
               IF ~chosen THEN <<>>
               ELSE IF wrote THEN <<"information">> ELSE <<"critical">>))

\* import_deeplinks, lines 484-526
import_deeplinks(doc, w) ==
    LET mf == MergeFavorites(doc.favorites,
                  [favs |-> data.favorites, rows |-> favorites_list,
                   added |-> 0, raised |-> FALSE])
        mh == MergeHistory(DocHistory(doc),
                  [hist |-> data.history, rows |-> history_list,
                   added |-> 0])
    IN
    /\ pc = "running"
    /\ Len(mf.favs) <= MaxFav
    /\ UNCHANGED deeplink_input
    /\ Env
    /\ IF ~doc.path
       THEN /\ Unused(w, "ok")
            /\ pc' = pc
            /\ NoStoreChange
            /\ Done(Op("import_deeplinks", "cancel", <<>>, "not_called", NoDoc,
                       0, 0, "none", <<>>))
       ELSE IF ~doc.readable
       THEN /\ Unused(w, "ok")
            /\ pc' = pc
            /\ NoStoreChange
            /\ Done(Op("import_deeplinks", "read_error", <<>>, "not_called", doc,
                       0, 0, "none", <<"critical">>))
       ELSE IF ~ValidImport(doc)
       THEN /\ Unused(w, "ok")
            /\ pc' = pc
            /\ NoStoreChange
            /\ Done(Op("import_deeplinks", "format_error", <<>>, "not_called",
                       doc, 0, 0, "none", <<"critical">>))
       ELSE IF mf.raised
       THEN /\ Unused(w, "ok")
            /\ pc' = "crashed"
            /\ data' = [data EXCEPT !.favorites = mf.favs]
            /\ favorites_list' = mf.rows
            /\ UNCHANGED <<history_list, file>>
            /\ Done(Op("import_deeplinks", "KeyError", <<>>, "not_called", doc,
                       mf.added, 0, "none", <<>>))
       ELSE /\ pc' = pc
            /\ data' = [history |-> mh.hist, favorites |-> mf.favs]
            /\ favorites_list' = mf.rows
            /\ history_list' = mh.rows
            /\ file' = save_data(file, data', w)
            /\ Done(Op("import_deeplinks", "merged", <<>>, "not_called", doc,
                       mf.added, mh.added, SaveResult(w),
                       SaveMsgs(w) \o <<"information">>))

----------------------------------------------------------------------------
(* Specifications *)

Replies == {"Yes", "No"}

Handlers ==
    \/ \E out \in StoreListings, v \in StoreVersions : refresh_devices(out, v)
    \/ \E t \in Texts : edit_deeplink(t)
    \/ \E r \in DispatchOutcomes, w \in Writes : launch(r, w)
    \/ \E row \in 0..(Len(history_list) - 1), r \in DispatchOutcomes,
          w \in Writes : launch_from_history(row, r, w)
    \/ \E row \in 0..(Len(history_list) - 1) : fill_from_history(row)
    \/ \E row \in 0..(Len(favorites_list) - 1), r \in DispatchOutcomes,
          w \in Writes : launch_from_favorite(row, r, w)
    \/ \E row \in 0..(Len(favorites_list) - 1) : fill_from_favorite(row)
    \/ \E name \in Names, ok \in BOOLEAN, w \in Writes :
          add_to_favorites(name, ok, w)
    \/ \E row \in Rows(favorites_list), name \in Names, ok \in BOOLEAN,
          w \in Writes : rename_favorite(row, name, ok, w)
    \/ \E row \in Rows(favorites_list), reply \in Replies,
          w \in Writes : delete_favorite(row, reply, w)
    \/ \E reply \in Replies, w \in Writes : clear_favorite(reply, w)
    \/ \E reply \in Replies, w \in Writes : clear_history(reply, w)
    \/ \E chosen \in BOOLEAN, wrote \in BOOLEAN :
          export_deeplinks(chosen, wrote)
    \/ \E doc \in Docs, w \in Writes : import_deeplinks(doc, w)

Next ==
    \/ \E out1 \in StoreListings, v1 \in StoreVersions,
          out2 \in StoreListings, v2 \in StoreVersions :
          Startup(out1, v1, out2, v2)
    \/ Handlers

\* the program, from process start
Spec == Init /\ [][Next]_vars

\* The device side of the program under everything adb can do: start-up,
\* refresh and the handlers that leave the store alone.
NextDevices ==
    \/ \E out1 \in AdbListings, v1 \in VersionOutcomes,
          out2 \in AdbListings, v2 \in VersionOutcomes :
          Startup(out1, v1, out2, v2)
    \/ \E out \in AdbListings, v \in VersionOutcomes : refresh_devices(out, v)
    \/ \E t \in Texts : edit_deeplink(t)
    \/ \E chosen \in BOOLEAN, wrote \in BOOLEAN :
          export_deeplinks(chosen, wrote)

SpecDevices == Init /\ [][NextDevices]_vars

\* The handlers on a constructed window, for both values of ADB_PATH.  A
\* window with ADB_PATH = None exists only if get_devices_info gave a list
\* at start-up; under Spec start-up ends in the TypeError of line 204.
InitHandlers ==
    /\ pc = "running"
    /\ ADB_PATH \in {NoneVal, AdbResolved}
    /\ \E st \in InitStores :
          /\ file = StoreFile(st)
          /\ data = st
          /\ history_list = st.history
          /\ favorites_list = FormatAll(st.favorites)
    /\ \E out \in StoreListings, v \in StoreVersions :
          LET devs == get_devices_info(AdbResolved, out, v) IN
          /\ ADB_PATH = NoneVal => devs.items = <<>>
          /\ devices = devs
          /\ device_combo = IF devs.items = <<>> THEN NoCombo
                            ELSE FilledCombo(devs.items)
    /\ deeplink_input = <<>>
    /\ lastOp = NoOp

SpecHandlers == InitHandlers /\ [][Handlers]_vars

----------------------------------------------------------------------------
(* Properties *)

Shown(kind, o) == kind \in RangeOf(o.msgs)

StoreUntouched ==
    /\ data' = data
    /\ history_list' = history_list
    /\ favorites_list' = favorites_list
    /\ file' = file

\* the two lists have no entry in common
SharesNone(xs, ys) == \A i \in 1..Len(xs) : ~In(xs[i], ys)

\* a document import_deeplinks accepts and can merge to the end
WellFormed(doc) ==
    /\ doc.path /\ doc.readable /\ doc.mapping /\ doc.hasFav
    /\ \A i \in 1..Len(doc.favorites) : ~FormatRaises(doc.favorites[i])

ImportCounts(doc) ==
    /\ lastOp'.added_fav = Len(doc.favorites)
    /\ lastOp'.added_hist = Len(DocHistory(doc))
    /\ (Len(data'.favorites) - Len(data.favorites))
         + (Len(data'.history) - Len(data.history))
       = Len(doc.favorites) + Len(DocHistory(doc))

\* C1: a launch whose dispatch succeeded puts a deep-link that is not in
\* history at position 0 and calls save_data (the file is the whole store
\* when the write succeeds); a deep-link already in history leaves history,
\* its widget and the file exactly as they were, the entry not moved.
C1_LaunchRecordsNewLinkAtFront ==
    [][ (lastOp'.op = "launch" /\ lastOp'.tool = "ok") =>
          LET d == lastOp'.d IN
          /\ d # <<>>
          /\ IF In(d, data.history)
             THEN /\ data'.history = data.history
                  /\ history_list' = history_list
                  /\ file' = file
                  /\ lastOp'.save = "none"
             ELSE /\ data'.history = <<d>> \o data.history
                  /\ lastOp'.save # "none"
                  /\ (lastOp'.save = "ok" => file' = StoreFile(data')) ]_vars

\* page1 launched again after page2: history is still [page2, page1]
C1_Witness ==
    /\ lastOp.op = "launch" /\ lastOp.tool = "ok"
    /\ lastOp.d = A /\ lastOp.save = "none"
    /\ data.history = <<B, A>>

C3_ListingFailureGivesEmptyList ==
    /\ devices.kind = "list"
    /\ (lastOp.op \in {"startup", "refresh_devices"}
           => lastOp.res # "TypeError")

\* C4: history holds no deep-link twice.
C4_HistoryHasNoDuplicates == NoDup(data.history)

\* a document that lists one link twice was merged and added it once
C4_Witness ==
    /\ lastOp.op = "import_deeplinks" /\ lastOp.res = "merged"
    /\ lastOp.doc.history = <<A, A>>
    /\ lastOp.added_hist = 1
    /\ In(A, data.history)

\* C5 as stated: a completed import of a document whose favorites share no
\* entry with the store's favorites adds len(favorites) + len(history)
\* entries and shows those two counts.
C5_ImportAddsEveryEntry ==
    [][ (/\ lastOp'.op = "import_deeplinks"
         /\ WellFormed(lastOp'.doc)
         /\ SharesNone(lastOp'.doc.favorites, data.favorites))
        => ImportCounts(lastOp'.doc) ]_vars

\* C5 amended: the same, for a document whose favorites and history each
\* hold no entry twice and share no entry with the store's favorites and
\* history respectively.
C5_ImportAddsEveryNewEntry ==
    [][ (/\ lastOp'.op = "import_deeplinks"
         /\ WellFormed(lastOp'.doc)
         /\ NoDup(lastOp'.doc.favorites)
         /\ NoDup(DocHistory(lastOp'.doc))
         /\ SharesNone(lastOp'.doc.favorites, data.favorites)
         /\ SharesNone(DocHistory(lastOp'.doc), data.history))
        => ImportCounts(lastOp'.doc) ]_vars

\* two favorites and two links were imported and all four were added
C5_Witness ==
    /\ lastOp.op = "import_deeplinks" /\ lastOp.res = "merged"
    /\ lastOp.doc.favorites = <<F2, F1>> /\ lastOp.doc.history = <<B, A>>
    /\ lastOp.added_fav = 2 /\ lastOp.added_hist = 2
    /\ data = [history |-> <<B, A>>, favorites |-> <<F2, F1>>]

\* C6: an import of the document that the step before imported adds no
\* favorite and no history entry and leaves the store and both widgets as
\* they were.
C6_SecondImportAddsNothing ==
    [][ (/\ lastOp.op = "import_deeplinks"
         /\ WellFormed(lastOp.doc)
         /\ pc = "running"
         /\ lastOp'.op = "import_deeplinks"
         /\ lastOp'.doc = lastOp.doc)
        => /\ lastOp'.added_fav = 0
           /\ lastOp'.added_hist = 0
           /\ data' = data
           /\ history_list' = history_list
           /\ favorites_list' = favorites_list
           /\ (lastOp'.save = "ok" => file' = StoreFile(data)) ]_vars

\* the document with two favorites and two links went in with nothing to add
C6_Witness ==
    /\ lastOp.op = "import_deeplinks" /\ lastOp.res = "merged"
    /\ lastOp.doc.favorites = <<F2, F1>> /\ lastOp.doc.history = <<B, A>>
    /\ lastOp.added_fav = 0 /\ lastOp.added_hist = 0

\* C7: an import of a document that cannot be read, is not a mapping or has
\* no "favorites" key shows an error dialog, calls no save, and leaves the
\* store, both widgets and the file as they were.
C7_MalformedImportIsRejected ==
    [][ (/\ lastOp'.op = "import_deeplinks"
         /\ lastOp'.doc.path
         /\ (\/ ~lastOp'.doc.readable
             \/ ~lastOp'.doc.mapping
             \/ ~lastOp'.doc.hasFav))
        => /\ Shown("critical", lastOp')
           /\ lastOp'.save = "none"
           /\ pc' = pc
           /\ StoreUntouched ]_vars

\* a mapping without "favorites" that holds a link the store does not have
\* was rejected
C7_Witness ==
    /\ lastOp.op = "import_deeplinks"
    /\ lastOp.doc.mapping /\ ~lastOp.doc.hasFav
    /\ lastOp.doc.history = <<A>>
    /\ Shown("critical", lastOp)
    /\ ~In(A, data.history)
    /\ file = StoreFile(data)

\* C8: delete_favorite, clear_favorite and clear_history leave the store,
\* both widgets and the file as they were unless the user answered Yes (no
\* question is asked when no row is current or history is empty).
C8_NoRemovalWithoutYes ==
    [][ (/\ lastOp'.op \in {"delete_favorite", "clear_favorite",
                            "clear_history"}
         /\ lastOp'.reply # "Yes")
        => StoreUntouched ]_vars

\* the user declined to delete a favorite that is still there
C8_Witness ==
    /\ lastOp.op = "delete_favorite" /\ lastOp.reply = "No"
    /\ data.favorites # <<>>
    /\ file = StoreFile(data)

\* what a handler whose save failed has left in memory
MutationKept ==
    CASE lastOp'.res = "recorded" ->
             data'.history = <<lastOp'.d>> \o data.history
      [] lastOp'.res = "added" ->
             Len(data'.favorites) = Len(data.favorites) + 1
      [] lastOp'.res = "deleted" ->
             Len(data'.favorites) = Len(data.favorites) - 1
      [] lastOp'.res = "cleared" ->
             \/ lastOp'.op = "clear_favorite" /\ data'.favorites = <<>>
             \/ lastOp'.op = "clear_history" /\ data'.history = <<>>
      [] lastOp'.res = "merged" ->
             /\ Len(data'.favorites)
                  = Len(data.favorites) + lastOp'.added_fav
             /\ Len(data'.history) = Len(data.history) + lastOp'.added_hist
      [] OTHER -> TRUE

\* C9: a handler that changes the store calls save_data; a save that
\* succeeds leaves the whole store in the file, so a file equal to the store
\* stays equal as long as no save fails; a handler that calls no save leaves
\* the file alone; a save that fails keeps the change in memory.
C9_EveryMutationRewritesFile ==
    [][ (pc = "running" /\ pc' = "running") =>
          /\ (data' # data => lastOp'.save # "none")
          /\ (lastOp'.save = "ok" => file' = StoreFile(data'))
          /\ (lastOp'.save = "none" => file' = file)
          /\ (file = StoreFile(data) /\ lastOp'.save # "failed"
                 => file' = StoreFile(data'))
          /\ (lastOp'.save = "failed" => MutationKept) ]_vars

\* a favorite was added, the write failed, the favorite is in memory and
\* the file holds no store
C9_Witness ==
    /\ lastOp.op = "add_to_favorites" /\ lastOp.save = "failed"
    /\ data.favorites # <<>>
    /\ file # StoreFile(data)

\* C10: while the window runs, row i of each widget shows entry i of the
\* corresponding list of the store.
C10_WidgetsMirrorStore ==
    pc = "running" =>
        /\ history_list = data.history
        /\ favorites_list = FormatAll(data.favorites)

\* a favorite was renamed with two favorites and two links on display
C10_Witness ==
    /\ lastOp.op = "rename_favorite" /\ lastOp.res = "renamed"
    /\ Len(favorites_list) = 2 /\ Len(history_list) = 2
    /\ data.history = <<B, A>>

====
